---- MODULE Spec2Model ----
(***************************************************************************)
(* Model of the generate_json command line program                         *)
(* (src/src/bin/generate_json.rs).  One run of main is a process that      *)
(* goes through: argument matching, derivation of the request values,      *)
(* the existence gate on the factors file, the call of                     *)
(* SurvivalData::from_file and the final report.  The file system is       *)
(* shared by all runs and by a user who may create or edit files.          *)
(***************************************************************************)
EXTENDS Integers, Sequences, FiniteSets, TLC

\* ------------------------------------------------------------------ bounds
MaxRuns ==
    2
MaxUserEdits ==
    1
MaxDelimLen ==
    2
MaxCatLen ==
    4

Runs ==
    1..MaxRuns

\* ------------------------------------------------- strings (Rust String)
\* A String is modelled as the sequence of its Unicode scalar values; its
\* bytes are the UTF-8 encoding of that sequence.
Utf8(c) ==
    IF c < 128 THEN <<c>>
    ELSE IF c < 2048 THEN <<192 + (c \div 64), 128 + (c % 64)>>
    ELSE IF c < 65536 THEN <<224 + (c \div 4096), 128 + ((c \div 64) % 64), 128 + (c % 64)>>
    ELSE <<240 + (c \div 262144), 128 + ((c \div 4096) % 64),
           128 + ((c \div 64) % 64), 128 + (c % 64)>>

RECURSIVE as_bytes(_)
as_bytes(s) ==
    IF s = <<>> THEN <<>> ELSE Utf8(Head(s)) \o as_bytes(Tail(s))

\* str::len: the length in bytes
len(s) ==
    Len(as_bytes(s))

\* char::is_whitespace (the Unicode White_Space property)
is_whitespace(c) ==
    \/ c \in 9..13
    \/ c \in {32, 133, 160, 5760, 8232, 8233, 8239, 8287, 12288}
    \/ c \in 8192..8202

RECURSIVE trim_start(_)
trim_start(s) ==
    IF s # <<>> /\ is_whitespace(Head(s)) THEN trim_start(Tail(s)) ELSE s

RECURSIVE trim_end(_)
trim_end(s) ==
    IF s # <<>> /\ is_whitespace(s[Len(s)])
    THEN trim_end(SubSeq(s, 1, Len(s) - 1))
    ELSE s

\* str::trim
trim(s) ==
    trim_end(trim_start(s))

\* str::split(','): the pieces between the commas, in order (n commas give
\* n + 1 pieces, empty ones included)
RECURSIVE split(_, _)
split(s, cur) ==
    IF s = <<>> THEN <<cur>>
    ELSE IF Head(s) = 44 THEN <<cur>> \o split(Tail(s), <<>>)
    ELSE split(Tail(s), Append(cur, Head(s)))

Range(f) ==
    {f[i] : i \in DOMAIN f}

Strs(alphabet, n) ==
    UNION {[1..k -> alphabet] : k \in 0..n}

\* ---------------------------------------------------- literals of main
\* "\\t": a backslash and the letter t
StrBackslashT ==
    <<92, 116>>
\* "tab"
StrTab ==
    <<116, 97, 98>>
\* ","
StrCommaChar ==
    <<44>>
\* "comma"
StrComma ==
    <<99, 111, 109, 109, 97>>
\* b'\t'
ByteTab ==
    9
\* b','
ByteComma ==
    44
DefaultFactorsFile ==
    "factors.tsv"

\* An optional value is <<>> (None) or <<v>> (Some(v)).
None ==
    <<>>
Some(v) ==
    <<v>>

\* ------------------------------------------ derivation of the request
\* matches.get_one("delimiter") with default_value("\\t")
delimiter_str(a) ==
    IF a.delimiter = None THEN StrBackslashT ELSE a.delimiter[1]

\* bug variant: the one-character test counts characters, not bytes
ResolveDelimiterByChars(s) ==
    IF s = StrBackslashT \/ s = StrTab THEN Some(ByteTab)
    ELSE IF s = StrCommaChar \/ s = StrComma THEN Some(ByteComma)
    ELSE IF Len(s) = 1 THEN Some(as_bytes(s)[1])
    ELSE None

\* bug variant: the word arms fall through to the first byte of the option
ResolveDelimiterFirstByte(s) ==
    IF s = StrBackslashT THEN Some(ByteTab)
    ELSE IF s = StrCommaChar THEN Some(ByteComma)
    ELSE IF len(s) >= 1 THEN Some(as_bytes(s)[1])
    ELSE None

\* the match on delimiter_str: Some(byte), or None for the bail
ResolveDelimiter(s) ==
    IF s = StrBackslashT \/ s = StrTab THEN Some(ByteTab)
    ELSE IF s = StrCommaChar \/ s = StrComma THEN Some(ByteComma)
    ELSE IF len(s) = 1 THEN Some(as_bytes(s)[1])
    ELSE None

\* bug variant: the names are collected without trimming
ParseCategoricalNoTrim(a) ==
    IF a.categorical = None THEN {}
    ELSE Range(split(a.categorical[1], <<>>))

\* categorical_cols: the trimmed pieces of the option, as a HashSet
ParseCategorical(a) ==
    IF a.categorical = None THEN {}
    ELSE {trim(v) : v \in Range(split(a.categorical[1], <<>>))}

\* bug variant: the option is ignored
FactorsFileDefaultOnly(a) ==
    DefaultFactorsFile

\* factors_file: the option, or factors.tsv
FactorsFileOf(a) ==
    IF a.factors_file = None THEN DefaultFactorsFile ELSE a.factors_file[1]

\* ---------------------------------------------------------- the state
VARIABLES
    pc,                 \* position of each run in main
    args,               \* the matches of each run
    input_path, delimiter, categorical_cols, factors_file,   \* main's locals
    out,                \* the lines each run printed
    ret,                \* what main returned: None, <<"Ok">> or <<"Err", msg>>
    calls,              \* the calls of SurvivalData::from_file each run made
    fs,                 \* the file system: path -> content
    writes,             \* every write of a run to the file system
    edits,              \* number of user edits so far
    fsAtStart,          \* the file system when each run started
    fsAtGate,           \* the side file as each run's existence check saw it
    fsAtDone,           \* the side file when each run returned
    gatePath            \* the path each run tested at the gate

vars ==
    <<pc, args, input_path, delimiter, categorical_cols, factors_file,
      out, ret, calls, fs, writes, edits, fsAtStart, fsAtGate, fsAtDone, gatePath>>

locals ==
    <<input_path, delimiter, categorical_cols, factors_file>>

\* ------------------------------------------------------- file system
Absent ==
    [who |-> "none", n |-> 0]
UserContent(k) ==
    [who |-> "user", n |-> k]
RunContent(p) ==
    [who |-> "run", n |-> p]

SidePaths ==
    {"factors.tsv", "my.tsv"}
InputPaths ==
    {"meta.tsv", "meta.csv"}

\* Path::exists
exists(path) ==
    fs[path] # Absent

Unchecked ==
    [who |-> "unchecked", n |-> 0]

NoFs ==
    [x \in SidePaths |-> Unchecked]

\* --------------------------------------------------------- arguments
ArgRecords(inputs, delims, cats, facts) ==
    [input : inputs, delimiter : delims, categorical : cats, factors_file : facts]

NoArgs ==
    [input |-> "", delimiter |-> None, categorical |-> None, factors_file |-> None]

OptionsOf(S) ==
    {None} \cup {Some(s) : s \in S}

\* the command lines of the runs that interleave: the same input, the
\* default or an explicit factors file (the options are covered one run at
\* a time by DelimArgs and CatArgs)
SmallArgs ==
    ArgRecords({"meta.tsv"}, {None}, {None}, {None, Some("my.tsv")})

DelimAlphabet ==
    {9, 44, 59, 92, 116, 233, 8364}

DelimStrings ==
    Strs(DelimAlphabet, MaxDelimLen)
        \cup {StrTab, StrComma, <<84, 97, 98>>, <<116, 97, 98, 115>>}

DelimArgs ==
    ArgRecords(InputPaths, OptionsOf(DelimStrings), {None, Some(<<97, 44, 32, 66>>)},
               OptionsOf(SidePaths))

CatAlphabet ==
    {32, 44, 65, 97, 160}

CatArgs ==
    ArgRecords({"meta.tsv"}, {None},
               OptionsOf(Strs(CatAlphabet, MaxCatLen)),
               {None})

\* ------------------------------------------------------------ messages
Msg(kind, path) ==
    [kind |-> kind, path |-> path]

\* --------------------------------------------------------------- Init
Init ==
    /\ pc = [p \in Runs |-> "idle"]
    /\ args = [p \in Runs |-> NoArgs]
    /\ input_path = [p \in Runs |-> ""]
    /\ delimiter = [p \in Runs |-> 0]
    /\ categorical_cols = [p \in Runs |-> {}]
    /\ factors_file = [p \in Runs |-> ""]
    /\ out = [p \in Runs |-> <<>>]
    /\ ret = [p \in Runs |-> None]
    /\ calls = [p \in Runs |-> <<>>]
    /\ fs \in [SidePaths -> {Absent, UserContent(0)}]
    /\ writes = {}
    /\ edits = 0
    /\ fsAtStart = [p \in Runs |-> NoFs]
    /\ fsAtGate = [p \in Runs |-> Unchecked]
    /\ gatePath = [p \in Runs |-> ""]
    /\ fsAtDone = [p \in Runs |-> Unchecked]

\* ------------------------------------------------------------ actions
\* get_matches: the run starts with some command line.  Runs are numbered
\* in the order in which they start.
Start(p, argset) ==
    /\ pc[p] = "idle"
    /\ IF p = 1 THEN TRUE ELSE pc[p - 1] # "idle"
    /\ \E a \in argset : args' = [args EXCEPT ![p] = a]
    /\ pc' = [pc EXCEPT ![p] = "derive"]
    /\ fsAtStart' = [fsAtStart EXCEPT ![p] = fs]
    /\ UNCHANGED <<locals, out, ret, calls, fs, writes, edits, fsAtGate, gatePath, fsAtDone>>

\* lines 65-84: the request values; an invalid delimiter bails out
Derive(p) ==
    /\ pc[p] = "derive"
    /\ LET d == ResolveDelimiter(delimiter_str(args[p])) IN
       IF d = None
       THEN /\ ret' = [ret EXCEPT ![p] = <<"Err", "Invalid delimiter">>]
            /\ pc' = [pc EXCEPT ![p] = "done"]
            /\ input_path' = [input_path EXCEPT ![p] = args[p].input]
            /\ UNCHANGED <<delimiter, categorical_cols, factors_file, fsAtDone>>
       ELSE /\ input_path' = [input_path EXCEPT ![p] = args[p].input]
            /\ delimiter' = [delimiter EXCEPT ![p] = d[1]]
            /\ categorical_cols' = [categorical_cols EXCEPT ![p] = ParseCategorical(args[p])]
            /\ factors_file' = [factors_file EXCEPT ![p] = FactorsFileOf(args[p])]
            /\ pc' = [pc EXCEPT ![p] = "gate"]
            /\ UNCHANGED <<ret, fsAtDone>>
    /\ UNCHANGED <<args, out, calls, fs, writes, edits, fsAtStart, fsAtGate, gatePath>>

\* bug variant: the gate never skips
GateExistsNever(p) ==
    FALSE

\* the condition of line 86
GateExists(p) ==
    exists(factors_file[p])

\* bug variant: the skip branch lacks its return and falls through
GateSkipNoReturn(p) ==
    /\ out' = [out EXCEPT ![p] = Append(@, Msg("exists", ""))]
    /\ pc' = [pc EXCEPT ![p] = "convert"]
    /\ UNCHANGED <<ret, fsAtDone>>

\* lines 87-88: the skip
GateSkip(p) ==
    /\ out' = [out EXCEPT ![p] = Append(@, Msg("exists", ""))]
    /\ ret' = [ret EXCEPT ![p] = <<"Ok">>]
    /\ pc' = [pc EXCEPT ![p] = "done"]
    /\ fsAtDone' = [fsAtDone EXCEPT ![p] = fs[factors_file[p]]]

\* lines 86-92: the existence gate
Gate(p) ==
    /\ pc[p] = "gate"
    /\ fsAtGate' = [fsAtGate EXCEPT ![p] = fs[factors_file[p]]]
    /\ gatePath' = [gatePath EXCEPT ![p] = factors_file[p]]
    /\ IF GateExists(p)
       THEN GateSkip(p)
       ELSE /\ out' = [out EXCEPT ![p] = @ \o <<Msg("input", input_path[p]),
                                                Msg("factors", factors_file[p]),
                                                Msg("categorical", "")>>]
            /\ pc' = [pc EXCEPT ![p] = "convert"]
            /\ UNCHANGED <<ret, fsAtDone>>
    /\ UNCHANGED <<args, locals, calls, fs, writes, edits, fsAtStart>>

\* SurvivalData::from_file, as the specification describes the engine: it
\* reads the table, writes the factor side file at the given path and
\* assembles the document; an error may come before or after the write.
FromFileOutcomes ==
    {"Ok", "ErrBeforeWrite", "ErrAfterWrite"}

FromFile(p, path, o) ==
    IF o = "ErrBeforeWrite"
    THEN UNCHANGED <<fs, writes>>
    ELSE /\ fs' = [fs EXCEPT ![path] = RunContent(p)]
         /\ writes' = writes \cup {[run |-> p, path |-> path, prev |-> fs[path]]}

IsErr(o) ==
    o # "Ok"

\* bug variant: the conversion is handed the default path
ConvertFactorsArgDefault(p) ==
    DefaultFactorsFile

\* line 98: the path handed to the conversion
ConvertFactorsArg(p) ==
    factors_file[p]

\* lines 94-102: the conversion; its result is only looked at to print
Convert(p) ==
    /\ pc[p] = "convert"
    /\ \E o \in FromFileOutcomes :
          /\ FromFile(p, ConvertFactorsArg(p), o)
          /\ calls' = [calls EXCEPT ![p] = Append(@,
                          [input |-> input_path[p], delimiter |-> delimiter[p],
                           categorical |-> categorical_cols[p],
                           factors |-> ConvertFactorsArg(p), result |-> o])]
          /\ out' = [out EXCEPT ![p] = IF IsErr(o) THEN @ ELSE Append(@, Msg("strange", ""))]
    /\ pc' = [pc EXCEPT ![p] = "report"]
    /\ UNCHANGED <<args, locals, ret, edits, fsAtStart, fsAtGate, gatePath, fsAtDone>>

\* bug variant: the final message names the default path
ReportedPathDefault(p) ==
    DefaultFactorsFile

\* line 104: the path named in the final message
ReportedPath(p) ==
    factors_file[p]

\* lines 104-105: the final message and Ok(())
Report(p) ==
    /\ pc[p] = "report"
    /\ out' = [out EXCEPT ![p] = Append(@, Msg("written", ReportedPath(p)))]
    /\ ret' = [ret EXCEPT ![p] = <<"Ok">>]
    /\ pc' = [pc EXCEPT ![p] = "done"]
    /\ fsAtDone' = [fsAtDone EXCEPT ![p] = fs[factors_file[p]]]
    /\ UNCHANGED <<args, locals, calls, fs, writes, edits, fsAtStart, fsAtGate, gatePath>>

\* the user creates or edits a file (the side file is meant to be edited)
UserEdit(path) ==
    /\ edits < MaxUserEdits
    /\ edits' = edits + 1
    /\ fs' = [fs EXCEPT ![path] = UserContent(edits + 1)]
    /\ UNCHANGED <<pc, args, locals, out, ret, calls, writes, fsAtStart, fsAtGate, gatePath, fsAtDone>>

NoneActive(p) ==
    \A q \in Runs \ {p} : pc[q] \in {"idle", "done"}

\* ------------------------------------------------------ specifications
\* runs that overlap in time, and a user
Next ==
    \/ \E p \in Runs : Start(p, SmallArgs)
    \/ \E p \in Runs : Derive(p)
    \/ \E p \in Runs : Gate(p)
    \/ \E p \in Runs : Convert(p)
    \/ \E p \in Runs : Report(p)
    \/ \E path \in SidePaths : UserEdit(path)

Spec ==
    Init /\ [][Next]_vars

\* runs one after the other, nothing else touching the files
SeqNext ==
    \/ \E p \in Runs : NoneActive(p) /\ Start(p, SmallArgs)
    \/ \E p \in Runs : Derive(p)
    \/ \E p \in Runs : Gate(p)
    \/ \E p \in Runs : Convert(p)
    \/ \E p \in Runs : Report(p)

SeqSpec ==
    Init /\ [][SeqNext]_vars

\* one run, over the delimiter options
DelimNext ==
    \/ Start(1, DelimArgs)
    \/ Derive(1)
    \/ Gate(1)
    \/ Convert(1)
    \/ Report(1)

DelimSpec ==
    Init /\ [][DelimNext]_vars

\* one run, over the categorical options
CatNext ==
    \/ Start(1, CatArgs)
    \/ Derive(1)
    \/ Gate(1)
    \/ Convert(1)
    \/ Report(1)

CatSpec ==
    Init /\ [][CatNext]_vars

\* ------------------------------------------------------------- claims
Printed(p, kind) ==
    \E i \in DOMAIN out[p] : out[p][i].kind = kind

Existing(c) ==
    c \notin {Unchecked, Absent}

WroteNothing(p) ==
    \A w \in writes : w.run # p

\* the delimiter options main accepts, stated from the option text alone
TokenTab(o) ==
    o = None \/ o = Some(<<92, 116>>) \/ o = Some(<<116, 97, 98>>)
TokenComma(o) ==
    o = Some(<<44>>) \/ o = Some(<<99, 111, 109, 109, 97>>)
OneByte(o) ==
    o # None /\ Len(o[1]) = 1 /\ o[1][1] < 128
DelimiterAccepted(o) ==
    TokenTab(o) \/ TokenComma(o) \/ OneByte(o)

\* C1: the existence of the side file is checked before any conversion; a
\* run whose gate found the file ends with Ok, never calls from_file and
\* writes nothing; a run whose gate found no file calls from_file exactly
\* once; every run with valid arguments reaches the gate.
C1_IdempotencyGate ==
    \A p \in Runs :
        /\ calls[p] # <<>> => fsAtGate[p] # Unchecked
        /\ Existing(fsAtGate[p]) =>
              /\ pc[p] = "done"
              /\ ret[p] = <<"Ok">>
              /\ calls[p] = <<>>
              /\ WroteNothing(p)
        /\ fsAtGate[p] = Absent => Len(calls[p]) <= 1
        /\ fsAtGate[p] = Absent /\ pc[p] \in {"report", "done"} => Len(calls[p]) = 1
        /\ pc[p] = "done" /\ DelimiterAccepted(args[p].delimiter) => fsAtGate[p] # Unchecked

C1_Witness ==
    \E p, q \in Runs :
        /\ pc[p] = "done" /\ Existing(fsAtGate[p]) /\ calls[p] = <<>>
        /\ pc[q] = "done" /\ fsAtGate[q] = Absent /\ Len(calls[q]) = 1

\* the side-file path two consecutive runs share, when the first found none
SameRequest(p, q) ==
    /\ pc[p] = "done" /\ pc[q] = "done"
    /\ fsAtGate[p] # Unchecked /\ fsAtGate[q] # Unchecked
    /\ input_path[p] = input_path[q]
    /\ factors_file[p] = factors_file[q]
    /\ fsAtStart[p][factors_file[p]] = Absent

SecondRunIdle(p, q) ==
    /\ calls[q] = <<>>
    /\ fsAtDone[q] = fsAtDone[p]

\* C2 as stated: of two runs in sequence with the same input and side-file
\* path, starting without a side file, the second performs no conversion and
\* leaves the side file as the first run left it, whatever the outcome of
\* the first run's conversion.
C2_SecondRunAlwaysIdle ==
    \A p \in Runs : (p + 1) \in Runs /\ SameRequest(p, p + 1) => SecondRunIdle(p, p + 1)

\* C2 as amended: the same, provided the first run's conversion wrote the
\* side file (it succeeded, or failed only after the write).
C2_SecondRunIdleAfterWrite ==
    \A p \in Runs :
        /\ (p + 1) \in Runs
        /\ SameRequest(p, p + 1)
        /\ fsAtDone[p] # Absent
        => SecondRunIdle(p, p + 1)

C2_Witness ==
    \E p \in Runs :
        /\ (p + 1) \in Runs
        /\ SameRequest(p, p + 1)
        /\ Len(calls[p]) = 1 /\ calls[p][1].result = "Ok"
        /\ fsAtDone[p] = RunContent(p)
        /\ SecondRunIdle(p, p + 1)

\* C3: a run whose conversion returned an error never reports success: it
\* neither returns Ok nor prints the message that the file was written.
C3_ErrorPropagates ==
    \A p \in Runs :
        (pc[p] = "done" /\ \E i \in DOMAIN calls[p] : calls[p][i].result # "Ok")
            => (ret[p] # <<"Ok">> /\ ~Printed(p, "written"))

\* C4: a run skipped because the side file exists returns Ok and does not
\* print that the file was written, and a run that went through the
\* conversion prints it: the two outcomes are told apart by the output.
C4_SkipOutcome ==
    \A p \in Runs :
        /\ Existing(fsAtGate[p]) /\ pc[p] = "done" =>
              /\ ret[p] = <<"Ok">>
              /\ out[p] = <<Msg("exists", "")>>
        /\ Existing(fsAtGate[p]) => ~Printed(p, "written")
        /\ pc[p] = "done" /\ calls[p] # <<>> =>
              /\ Printed(p, "written")
              /\ ~Printed(p, "exists")

C4_Witness ==
    \E p \in Runs :
        /\ pc[p] = "done" /\ fsAtGate[p] = UserContent(0)
        /\ ret[p] = <<"Ok">> /\ Printed(p, "exists")

\* C5: no run writes to the side-file path while a file exists there.
C5_NoOverwrite ==
    \A w \in writes : w.prev = Absent

\* C6: the delimiter handed to the conversion is one byte: the tab byte
\* when the option is absent, \t or tab; the comma byte when it is , or
\* comma; otherwise the byte of an option that is one byte long.
C6_DelimiterResolution ==
    \A p \in Runs : \A i \in DOMAIN calls[p] :
        LET o == args[p].delimiter
            d == calls[p][i].delimiter
        IN  /\ d \in 0..255
            /\ DelimiterAccepted(o)
            /\ TokenTab(o) => d = 9
            /\ TokenComma(o) => d = 44
            /\ OneByte(o) => d = o[1][1]

C6_Witness ==
    /\ calls[1] # <<>>
    /\ args[1].delimiter = Some(<<116, 97, 98>>)
    /\ calls[1][1].delimiter = 9

\* the pieces of a comma-separated text: its maximal comma-free stretches
Pieces(s) ==
    {SubSeq(s, i, j) : <<i, j>> \in
        {x \in (1..(Len(s) + 1)) \X (0..Len(s)) :
            /\ x[2] >= x[1] - 1
            /\ \A k \in x[1]..x[2] : s[k] # 44
            /\ x[1] = 1 \/ s[x[1] - 1] = 44
            /\ x[2] = Len(s) \/ s[x[2] + 1] = 44}}

\* x without the white space around it: the stretch of x that neither
\* starts nor ends with white space and has only white space around it
Stripped(x) ==
    LET ij == CHOOSE y \in (1..(Len(x) + 1)) \X (0..Len(x)) :
                  /\ y[2] >= y[1] - 1
                  /\ \A k \in 1..(y[1] - 1) : is_whitespace(x[k])
                  /\ \A k \in (y[2] + 1)..Len(x) : is_whitespace(x[k])
                  /\ y[2] >= y[1] => ~is_whitespace(x[y[1]]) /\ ~is_whitespace(x[y[2]])
                  /\ y[2] < y[1] => y[1] = 1
    IN  SubSeq(x, ij[1], ij[2])

\* C7 as stated: the set handed to the conversion holds exactly the names
\* of the comma-separated option, each exactly as supplied, duplicates
\* collapsed; it is empty when the option is absent.
C7_NamesAsSupplied ==
    \A p \in Runs : \A i \in DOMAIN calls[p] :
        calls[p][i].categorical =
            IF args[p].categorical = None THEN {} ELSE Pieces(args[p].categorical[1])

\* C7 as amended: each name is used with the white space around it removed,
\* and otherwise exactly as supplied (case kept), duplicates collapsed.
C7_NamesTrimmed ==
    \A p \in Runs : \A i \in DOMAIN calls[p] :
        calls[p][i].categorical =
            IF args[p].categorical = None THEN {}
            ELSE {Stripped(x) : x \in Pieces(args[p].categorical[1])}

C7_Witness ==
    /\ calls[1] # <<>>
    /\ args[1].categorical = Some(<<65, 44, 32, 97>>)
    /\ calls[1][1].categorical = {<<65>>, <<97>>}

\* C8: the path the run reports the JSON as written to is never the path
\* of the factor side file whose existence gates the run.
C8_SeparateArtifacts ==
    \A p \in Runs : \A i \in DOMAIN out[p] :
        out[p][i].kind = "written" => out[p][i].path # gatePath[p]

\* C9: a delimiter option that is neither a token nor one byte long makes
\* the run fail with Invalid delimiter, whether or not the side file
\* exists: the gate is not reached, nothing is printed, from_file is not
\* called and the files stay as they were.
C9_InvalidDelimiter ==
    \A p \in Runs :
        (pc[p] \notin {"idle", "derive"} /\ ~DelimiterAccepted(args[p].delimiter)) =>
            /\ pc[p] = "done"
            /\ ret[p] = <<"Err", "Invalid delimiter">>
            /\ fsAtGate[p] = Unchecked
            /\ out[p] = <<>>
            /\ calls[p] = <<>>
            /\ WroteNothing(p)
            /\ fs = fsAtStart[p]

C9_Witness ==
    /\ pc[1] = "done"
    /\ args[1].delimiter = Some(<<233>>)
    /\ fsAtStart[1]["factors.tsv"] = UserContent(0)
    /\ args[1].factors_file = None
    /\ ret[1] = <<"Err", "Invalid delimiter">>

====
